---- MODULE Spec2Model ----
(***************************************************************************)
(* Democratic Backsliding Tracker: the filter/sort derivation, the view    *)
(* dispatcher, the lazily loaded choropleth map and the detail modal of    *)
(* public/app.js and map.js, as a state machine.                           *)
(*                                                                         *)
(* Strings that the code folds or searches are sequences of character      *)
(* codes: a..z = 1..26, A..Z = 27..52, space = 53.  Strings that are only  *)
(* compared for identity (element ids, sort keys, view names) are TLA+     *)
(* strings.                                                                *)
(***************************************************************************)
EXTENDS Integers, Sequences, FiniteSets, TLC

VARIABLES
  allCountries,   \* app.js: the loaded dataset
  activeFilters,  \* app.js: status, sortBy, sortOrder, search
  derived,        \* the list getFilteredSorted returned last
  pc,             \* where init() stands: "loading", "ready" (controls bound)
                  \* or "failed"; "start"/"derived" for the derivation alone
  currentView,    \* app.js: "grid", "table" or "map"
  btnActive,      \* the view buttons that carry the class "active"
  hidden,         \* which containers carry the class "hidden"
  summary,        \* the counts of the summary bar
  gridContent,    \* what #countryGrid holds
  tableContent,   \* what #countryTableBody holds
  mapContent,     \* what #mapContainer holds
  isoToCountry,   \* map.js: property key of a feature id -> Country
  mapRendered,    \* map.js: the render-once guard
  cachedWorld,    \* map.js: the cached geometry document
  inFlight,       \* renderMap invocations suspended in  await d3.json(..)
  overlayHidden,  \* #modalOverlay carries the class "hidden"
  modalTitle,     \* the text of #modalTitle
  bars,           \* the three score bars: target, width and value text
  rafs,           \* the callbacks requestAnimationFrame holds for the next frame
  sinceOpen,      \* frames run since openModal last reset the bars (2: two or more)
  trendChart,     \* what #trendChart holds
  tooltip,        \* map.js: the shared tooltip element
  hover,          \* the feature under the pointer
  highlighted     \* the paths drawn with the hover stroke

viewVars == <<currentView, btnActive, hidden, gridContent, tableContent>>
mapVars == <<mapContent, mapRendered, cachedWorld, inFlight>>
modalVars == <<overlayHidden, modalTitle, bars, sinceOpen, trendChart>>
hoverVars == <<tooltip, hover, highlighted>>
vars == <<allCountries, activeFilters, derived, pc, summary, isoToCountry,
          viewVars, mapVars, modalVars, rafs, hoverVars>>

(***************************************************************************)
(* Bounds of the model.                                                    *)
(***************************************************************************)
MaxLen == 3
MaxInFlight == 2
MaxPoints == 3

(***************************************************************************)
(* Character strings.                                                      *)
(***************************************************************************)
S_empty     == << >>
S_all       == <<1, 12, 12>>
S_stable    == <<19, 20, 1, 2, 12, 5>>
S_Stable    == <<45, 20, 1, 2, 12, 5>>
S_at_risk   == <<1, 20, 53, 18, 9, 19, 11>>
S_ar        == <<1, 18>>
S_AR        == <<27, 44>>
S_BR        == <<28, 44>>
S_Argentina == <<27, 18, 7, 5, 14, 20, 9, 14, 1>>
S_Brazil    == <<28, 18, 1, 26, 9, 12>>
S_brazil    == <<2, 18, 1, 26, 9, 12>>
S_Chile     == <<29, 8, 9, 12, 5>>
S_Peru      == <<42, 5, 18, 21>>

\* String.prototype.toLowerCase on one character code
LowerChar(ch) == IF ch \in 27..52 THEN ch - 26 ELSE ch

\* String.prototype.toLowerCase
ToLowerCase(s) == [i \in 1..Len(s) |-> LowerChar(s[i])]

\* String.prototype.includes
Includes(hay, needle) ==
  \E i \in 0..(Len(hay) - Len(needle)) :
     \A j \in 1..Len(needle) : hay[i + j] = needle[j]

\* Collation weights of String.prototype.localeCompare (root collation):
\* the space sorts before every letter, letters compare without case first,
\* and a lower-case letter precedes its upper-case form as a tie-break.
PrimaryWeight(ch) == IF ch = 53 THEN 0 ELSE LowerChar(ch)
CaseWeight(ch) == IF ch \in 27..52 THEN 1 ELSE 0

RECURSIVE CompareWeights(_, _, _)
CompareWeights(a, b, i) ==
  IF i > Len(a) /\ i > Len(b) THEN 0
  ELSE IF i > Len(a) THEN -1
  ELSE IF i > Len(b) THEN 1
  ELSE IF a[i] < b[i] THEN -1
  ELSE IF a[i] > b[i] THEN 1
  ELSE CompareWeights(a, b, i + 1)

LocaleCompare(a, b) ==
  LET p == CompareWeights([i \in 1..Len(a) |-> PrimaryWeight(a[i])],
                          [i \in 1..Len(b) |-> PrimaryWeight(b[i])], 1)
  IN IF p # 0 THEN p
     ELSE CompareWeights([i \in 1..Len(a) |-> CaseWeight(a[i])],
                         [i \in 1..Len(b) |-> CaseWeight(b[i])], 1)

(***************************************************************************)
(* JSON values of a Country record.  A numeric field is a number, null or  *)
(* absent (undefined); status_indicator is a string or absent.  Indices    *)
(* in [0,1] are held in hundredths, the BTI score in [0,10] in tenths.     *)
(***************************************************************************)
Num(n)    == [k |-> "num", v |-> n]
Null      == [k |-> "null", v |-> 0]
Undefined == [k |-> "undefined", v |-> 0]
Str(s)    == [k |-> "str", v |-> s]
NoStr     == [k |-> "undefined", v |-> << >>]

\* x ?? d  (nullish coalescing on a numeric field)
Coalesce(x, d) == IF x.k = "num" THEN x.v ELSE d

\* (x || '')  on a string field
OrEmpty(x) == IF x.k = "str" THEN x.v ELSE S_empty

\* polyarchy_trend: a sequence of { year, value } points, null, or absent
TrendPoint(y, v) == [year |-> y, value |-> v]
Trend(pts) == [k |-> "seq", pts |-> pts]
NullTrend  == [k |-> "null", pts |-> << >>]
NoTrend    == [k |-> "undefined", pts |-> << >>]

Country(n, s, p, l, b, e) ==
  [name |-> n, status_indicator |-> s, poly |-> p, libdem |-> l,
   bti |-> b, events |-> e, trend |-> NoTrend]

(***************************************************************************)
(* Filtering and sorting: getFilteredSorted.                               *)
(***************************************************************************)
MatchStatus(c, status) ==
  status = S_all \/ ToLowerCase(OrEmpty(c.status_indicator)) = status

MatchSearchAlways(c, search) == TRUE

MatchSearch(c, search) ==
  search = S_empty \/ Includes(ToLowerCase(c.name), ToLowerCase(search))

\* the sentinel the comparator substitutes for a missing key
MissingHighest(sortBy) == 1001

Sentinel(sortBy) == IF sortBy = "events" THEN 0 ELSE -1

SortKeys == {"name", "polyarchy", "libdem", "bti", "events"}
NumericKeys == SortKeys \ {"name"}

KeyField(c, sortBy) ==
  CASE sortBy = "polyarchy" -> c.poly
    [] sortBy = "libdem"    -> c.libdem
    [] sortBy = "bti"       -> c.bti
    [] sortBy = "events"    -> c.events

\* the comparator handed to Array.prototype.sort
Compare(a, b, sortBy, sortOrder) ==
  IF sortBy \in NumericKeys
  THEN LET va == Coalesce(KeyField(a, sortBy), Sentinel(sortBy))
           vb == Coalesce(KeyField(b, sortBy), Sentinel(sortBy))
       IN IF sortOrder = "asc" THEN va - vb ELSE vb - va
  ELSE IF sortOrder = "asc" THEN LocaleCompare(a.name, b.name)
       ELSE LocaleCompare(b.name, a.name)

\* Array.prototype.sort is stable: insert each element after the last
\* element that does not compare greater than it.
RECURSIVE InsertSorted(_, _, _, _)
InsertSorted(s, x, sortBy, sortOrder) ==
  IF s = << >> THEN <<x>>
  ELSE IF Compare(s[Len(s)], x, sortBy, sortOrder) <= 0 THEN Append(s, x)
  ELSE Append(InsertSorted(SubSeq(s, 1, Len(s) - 1), x, sortBy, sortOrder),
              s[Len(s)])

RECURSIVE SortFrom(_, _, _, _, _)
SortFrom(list, i, acc, sortBy, sortOrder) ==
  IF i > Len(list) THEN acc
  ELSE SortFrom(list, i + 1, InsertSorted(acc, list[i], sortBy, sortOrder),
                sortBy, sortOrder)

GetFilteredSorted(all, f) ==
  LET list == SelectSeq(all, LAMBDA c : MatchStatus(c, f.status)
                                        /\ MatchSearch(c, f.search))
  IN SortFrom(list, 1, << >>, f.sortBy, f.sortOrder)

(***************************************************************************)
(* Inputs of the derivation.                                               *)
(***************************************************************************)
Names == {S_Argentina, S_brazil}
StatusValues == {Str(S_Stable), NoStr}
NumProfiles ==
  { <<Num(80), Num(70), Num(85), Num(3)>>,
    <<Num(0), Null, Num(0), Num(0)>>,
    <<Null, Undefined, Null, Undefined>> }

RecordPool ==
  { Country(n, s, v[1], v[2], v[3], v[4]) :
      n \in Names, s \in StatusValues, v \in NumProfiles }

StatusFilters == {S_all, S_stable, S_Stable}
SearchTexts == {S_empty, S_ar, S_AR}
SortOrders == {"asc", "desc"}

Criteria ==
  [status : StatusFilters, sortBy : SortKeys, sortOrder : SortOrders,
   search : SearchTexts]

Lists == UNION { [1..n -> RecordPool] : n \in 0..MaxLen }

(***************************************************************************)
(* Rendering of one Country: cardHTML, the table row, indicatorRow and     *)
(* tableBar.  A number formatted by toFixed(d) is Fixed(x, d); the text    *)
(* of a template literal that interpolates a raw value is Raw(x).          *)
(***************************************************************************)
Fixed(x, d) == [k |-> "fixed", v |-> x, d |-> d]
Dash        == [k |-> "dash", v |-> 0, d |-> 0]
Raw(x)      == [k |-> x.k, v |-> x.v, d |-> 0]
NoText      == [k |-> "none", v |-> 0, d |-> 0]

\* Math.round((value / max) * 100), 0 for null and undefined
Pct(value) == IF value.k = "num" THEN value.v ELSE 0

ColorBand(pct) ==
  IF pct >= 65 THEN "bar-high" ELSE IF pct >= 40 THEN "bar-mid" ELSE "bar-low"

\* indicatorRow and tableBar: the bar's target, its colour, the text shown
IndicatorRow(value, displayVal) ==
  [pct   |-> Pct(value),
   color |-> ColorBand(Pct(value)),
   shown |-> IF displayVal # NoText THEN displayVal
             ELSE IF value.k = "num" THEN Fixed(value.v, 2) ELSE Dash]

\* STATUS_CLASS[(status || 'at risk').toLowerCase()] || 'at-risk'
StatusClass(c) ==
  LET key == ToLowerCase(IF c.status_indicator.k = "str"
                         THEN c.status_indicator.v ELSE S_at_risk)
  IN IF key = S_stable THEN "stable" ELSE "at-risk"

\* bti.toFixed(..) is evaluated whenever bti !== null: a TypeError when the
\* key is absent
BtiThrows(c) == c.bti.k = "undefined"

CardHTML(c) ==
  [name   |-> c.name,
   cls    |-> StatusClass(c),
   badge  |-> c.status_indicator,
   poly   |-> IndicatorRow(c.poly, NoText),
   lib    |-> IndicatorRow(c.libdem, NoText),
   bti    |-> IndicatorRow(c.bti, IF c.bti.k = "null" THEN Dash
                                  ELSE Fixed(c.bti.v, 1)),
   events |-> Raw(c.events)]

TableRow(c) ==
  [name   |-> c.name,
   cls    |-> StatusClass(c),
   badge  |-> c.status_indicator,
   poly   |-> IndicatorRow(c.poly, NoText),
   lib    |-> IndicatorRow(c.libdem, NoText),
   bti    |-> IndicatorRow(c.bti, IF c.bti.k = "null" THEN Dash
                                  ELSE Fixed(c.bti.v, 1)),
   events |-> Raw(Num(Coalesce(c.events, 0)))]

Content(kind, items) == [k |-> kind, items |-> items, animated |-> FALSE]

(***************************************************************************)
(* map.js: the identifier table and initMap.  A feature id and a key of    *)
(* isoToCountry are property keys: strings of decimal digits.              *)
(***************************************************************************)
LATAM_ISO ==
  { <<32, S_Argentina>>, <<76, S_Brazil>>, <<152, S_Chile>>, <<604, S_Peru>> }

RECURSIVE DecimalString(_)
DecimalString(n) ==
  IF n < 10 THEN <<n>> ELSE Append(DecimalString(n \div 10), n % 10)

\* the features of the geometry document, their ids as the atlas writes
\* them: strings of three digits ("076" for Brazil); 826 has no entry in
\* LATAM_ISO
Features == { <<0, 7, 6>>, <<1, 5, 2>>, <<6, 0, 4>>, <<8, 2, 6>> }

RECURSIVE InitMapFrom(_, _, _)
InitMapFrom(countries, i, acc) ==
  IF i > Len(countries) THEN acc
  ELSE LET c == countries[i]
           hit == {e \in LATAM_ISO : e[2] = c.name}
       IN IF hit = {} THEN InitMapFrom(countries, i + 1, acc)
          ELSE LET key == DecimalString((CHOOSE e \in hit : TRUE)[1])
               IN InitMapFrom(countries, i + 1,
                    [x \in (DOMAIN acc) \cup {key} |->
                       IF x = key THEN c ELSE acc[x]])

InitMap(countries) == InitMapFrom(countries, 1, << >>)

\* isoToCountry[d.id] is truthy
Matched(fid) == fid \in DOMAIN isoToCountry

STATUS_FILL(c) ==
  LET key == ToLowerCase(OrEmpty(c.status_indicator))
  IN IF key = S_stable THEN "#2e7d32"
     ELSE IF key = S_at_risk THEN "#f57f17" ELSE "#999"

\* drawMap: the fill, the opacity and the cursor of every path
DrawMap ==
  [k |-> "svg",
   paths |-> [fid \in Features |->
     IF Matched(fid)
     THEN [fill |-> STATUS_FILL(isoToCountry[fid]), opacity |-> 100,
           cursor |-> "pointer"]
     ELSE [fill |-> "#d4d4d4", opacity |-> 45, cursor |-> "default"]]]

MapText(kind) == [k |-> kind, paths |-> << >>]

\* populateSummary
PopulateSummary(countries) ==
  [s \in {S_stable, S_at_risk} |->
     Cardinality({i \in 1..Len(countries) :
        ToLowerCase(OrEmpty(countries[i].status_indicator)) = s})]

(***************************************************************************)
(* The detail modal and the tooltip: what they show for one Country.       *)
(***************************************************************************)
BarIds == {"barPolyarchy", "barLibdem", "barBti"}

\* a score bar the markup gives: no data-target yet
NoBar == [set |-> FALSE, target |-> 0, width |-> 0, color |-> "",
          text |-> NoText]

\* setModalBar: the target is stored, the width is reset to 0
SetModalBar(value, displayOverride) ==
  [set    |-> TRUE,
   target |-> Pct(value),
   width  |-> 0,
   color  |-> ColorBand(Pct(value)),
   text   |-> IF displayOverride # NoText THEN displayOverride
              ELSE IF value.k = "num" THEN Fixed(value.v, 2) ELSE Dash]

\* animateModalBars on one bar
AnimateModalBar(b) == IF b.set THEN [b EXCEPT !.width = b.target] ELSE b

NoFeature == << >>
NoTooltip == [exists |-> FALSE, display |-> "none", name |-> S_empty,
              poly |-> NoText, lib |-> NoText, bti |-> NoText]

\* showMapTooltip evaluates x.toFixed(..) whenever x !== null
TooltipThrows(c) ==
  c.poly.k = "undefined" \/ c.libdem.k = "undefined" \/ c.bti.k = "undefined"

TooltipText(c) ==
  [exists |-> TRUE, display |-> "block", name |-> c.name,
   poly |-> IF c.poly.k = "null" THEN Dash ELSE Fixed(c.poly.v, 2),
   lib  |-> IF c.libdem.k = "null" THEN Dash ELSE Fixed(c.libdem.v, 2),
   bti  |-> IF c.bti.k = "null" THEN Dash ELSE Fixed(c.bti.v, 1)]

(***************************************************************************)
(* renderTrendChart.  Coordinates are the texts toFixed(1) gives, held in  *)
(* tenths; a coordinate computed from an absent value is the text "NaN".   *)
(***************************************************************************)
ChartW == 560
ChartH == 120
PadTop == 10
PadRight == 10
PadBottom == 22
PadLeft == 32
iW == ChartW - PadLeft - PadRight
iH == ChartH - PadTop - PadBottom

NaNText == [k |-> "NaN", v |-> 0, d |-> 0]

\* a / b rounded to the nearest integer, for a >= 0 and b > 0
RoundDiv(a, b) == (2 * a + b) \div (2 * b)

\* xScale(y).toFixed(1)
XScale(y, minX, maxX) ==
  IF maxX = minX THEN NaNText
  ELSE Fixed(10 * PadLeft + RoundDiv((y - minX) * iW * 10, maxX - minX), 1)

\* yScale(v).toFixed(1): null counts as 0, undefined gives NaN
YScale(v) ==
  CASE v.k = "num"  -> Fixed(10 * PadTop + RoundDiv((100 - v.v) * iH * 10, 100), 1)
    [] v.k = "null" -> Fixed(10 * PadTop + 10 * iH, 1)
    [] OTHER        -> NaNText

\* lastVal >= midVal
GreaterOrEqual(a, b) ==
  /\ a.k # "undefined"
  /\ b.k # "undefined"
  /\ Coalesce(a, 0) >= Coalesce(b, 0)

TrendContent(kind, line, dots, label, ticks) ==
  [k |-> kind, polylines |-> line, dots |-> dots, label |-> label,
   ticks |-> ticks]

TrendMarkup == TrendContent("markup", << >>, << >>, NoText, << >>)

\* lastVal.toFixed(2) on a last value that is null or absent
TrendThrows(trend) ==
  /\ trend.k = "seq"
  /\ Len(trend.pts) >= 2
  /\ trend.pts[Len(trend.pts)].value.k # "num"

RenderTrendChart(trend) ==
  IF trend.k # "seq" \/ Len(trend.pts) < 2
  THEN TrendContent("placeholder", << >>, << >>, NoText, << >>)
  ELSE LET pts == trend.pts
           n == Len(pts)
           minX == pts[1].year
           maxX == pts[n].year
           midVal == pts[(n \div 2) + 1].value
           lastVal == pts[n].value
           trendColor == IF GreaterOrEqual(lastVal, midVal)
                         THEN "#2e7d32" ELSE "#b71c1c"
           at(p) == [x |-> XScale(p.year, minX, maxX), y |-> YScale(p.value)]
           linePts == [i \in 1..n |-> at(pts[i])]
       IN TrendContent("chart",
            << [points |-> linePts, stroke |-> trendColor] >>,
            [i \in 1..n |-> [c |-> at(pts[i]), fill |-> trendColor]],
            Fixed(lastVal.v, 2),
            [j \in 1..((n + 2) \div 3) |-> pts[3 * (j - 1) + 1].year])

(***************************************************************************)
(* The render dispatcher.  Render gives the values the page's state has    *)
(* after renderView() ran with the given dataset, view and filters; threw  *)
(* names the function that threw, if one did.                              *)
(***************************************************************************)
Containers == {"countryGrid", "countryTableWrap", "mapContainer"}
Views == {"grid", "table", "map"}

ShowOnly(container) == [x \in Containers |-> x # container]

RenderGrid(r, countries) ==
  LET shown == [r EXCEPT !.hidden = ShowOnly("countryGrid")]
  IN IF countries = << >>
     THEN [shown EXCEPT !.grid = Content("message", << >>)]
     ELSE IF \E i \in 1..Len(countries) : BtiThrows(countries[i])
     THEN [shown EXCEPT !.threw = "cardHTML"]
     ELSE [shown EXCEPT
             !.grid = Content("cards",
                        [i \in 1..Len(countries) |-> CardHTML(countries[i])]),
             !.rafs = @ \cup {"gridBars"}]

RenderTable(r, countries) ==
  LET shown == [r EXCEPT !.hidden = ShowOnly("countryTableWrap")]
  IN IF countries = << >>
     THEN [shown EXCEPT !.table = Content("message", << >>)]
     ELSE IF \E i \in 1..Len(countries) : BtiThrows(countries[i])
     THEN [shown EXCEPT !.threw = "renderTable"]
     ELSE [shown EXCEPT
             !.table = Content("rows",
                        [i \in 1..Len(countries) |-> TableRow(countries[i])]),
             !.rafs = @ \cup {"tableBars"}]

\* renderMap up to its first await, or to its end when nothing is awaited
RenderMapGuardless(r) ==
  IF r.cachedWorld = "null"
  THEN [r EXCEPT !.mapRendered = TRUE, !.map = MapText("loading"),
                 !.inFlight = @ + 1]
  ELSE IF r.cachedWorld = "malformed"
  THEN [r EXCEPT !.mapRendered = FALSE, !.map = MapText("error")]
  ELSE [r EXCEPT !.mapRendered = TRUE, !.map = DrawMap]

RenderMap(r) ==
  IF r.mapRendered THEN r
  ELSE IF r.cachedWorld = "null"
  THEN [r EXCEPT !.mapRendered = TRUE, !.map = MapText("loading"),
                 !.inFlight = @ + 1]
  ELSE IF r.cachedWorld = "malformed"
  THEN [r EXCEPT !.mapRendered = FALSE, !.map = MapText("error")]
  ELSE [r EXCEPT !.mapRendered = TRUE, !.map = DrawMap]

RenderMapViewKeepsGrid(r) ==
  RenderMap([r EXCEPT !.hidden = [ShowOnly("mapContainer") EXCEPT
                                     !["countryGrid"] = r.hidden["countryGrid"]]])

RenderMapView(r) ==
  RenderMap([r EXCEPT !.hidden = ShowOnly("mapContainer")])

Render(all, view, f) ==
  LET countries == GetFilteredSorted(all, f)
      r == [derived |-> countries, hidden |-> hidden, grid |-> gridContent,
            table |-> tableContent, map |-> mapContent,
            mapRendered |-> mapRendered, cachedWorld |-> cachedWorld,
            inFlight |-> inFlight, rafs |-> {}, threw |-> "none"]
  IN CASE view = "grid"  -> RenderGrid(r, countries)
       [] view = "table" -> RenderTable(r, countries)
       [] view = "map"   -> RenderMapView(r)

\* the page after renderView()
Rendered(r) ==
  /\ derived' = r.derived
  /\ hidden' = r.hidden
  /\ gridContent' = r.grid
  /\ tableContent' = r.table
  /\ mapContent' = r.map
  /\ mapRendered' = r.mapRendered
  /\ inFlight' = r.inFlight
  /\ rafs' = rafs \cup r.rafs

(***************************************************************************)
(* Inputs of the application.                                              *)
(***************************************************************************)
BrazilRec ==
  [Country(S_Brazil, Str(S_at_risk), Null, Null, Null, Null) EXCEPT
     !.trend = Trend(<<TrendPoint(2001, Num(50)), TrendPoint(2002, Null)>>)]
ChileRec ==
  [Country(S_Chile, Str(S_Stable), Num(80), Num(70), Num(85), Num(3)) EXCEPT
     !.trend = Trend(<<TrendPoint(2001, Num(70)), TrendPoint(2002, Num(80))>>)]
PeruRec ==
  [Country(S_Peru, NoStr, Num(40), Undefined, Num(50), Undefined) EXCEPT
     !.trend = Trend(<<TrendPoint(2001, Num(40))>>)]
ArgentinaRec ==
  Country(S_Argentina, Str(S_stable), Num(60), Num(55), Undefined, Num(1))

Datasets ==
  { << >>,
    <<BrazilRec, ChileRec>>,
    <<PeruRec>>,
    <<ChileRec, ArgentinaRec>> }

AppStatusFilters == {S_all, S_at_risk}
AppSearchTexts == {S_empty, S_BR}
AppSortKeys == {"name", "bti"}
GeometryDocuments == {"topology", "malformed"}

DefaultFilters ==
  [status |-> S_all, sortBy |-> "name", sortOrder |-> "asc", search |-> S_empty]

(***************************************************************************)
(* The application: init(), the controls bound by bindControls, and the    *)
(* completion of the geometry fetch.                                       *)
(***************************************************************************)
Init ==
  /\ allCountries = << >>
  /\ activeFilters = DefaultFilters
  /\ derived = << >>
  /\ pc = "loading"
  /\ currentView = "grid"
  /\ btnActive = {"btnGrid"}
  /\ hidden \in [Containers -> BOOLEAN]
  /\ summary = PopulateSummary(<< >>)
  /\ gridContent = Content("markup", << >>)
  /\ tableContent = Content("markup", << >>)
  /\ mapContent = MapText("markup")
  /\ isoToCountry = << >>
  /\ mapRendered = FALSE
  /\ cachedWorld = "null"
  /\ inFlight = 0
  /\ overlayHidden = TRUE
  /\ modalTitle = S_empty
  /\ bars = [b \in BarIds |-> NoBar]
  /\ rafs = {}
  /\ sinceOpen = 2
  /\ trendChart = TrendMarkup
  /\ tooltip = NoTooltip
  /\ hover = NoFeature
  /\ highlighted = {}

\* init(): the dataset fetch resolved with a document { countries: [...] }
InitLoaded(data) ==
  /\ pc = "loading"
  /\ allCountries' = data
  /\ summary' = PopulateSummary(data)
  /\ isoToCountry' = InitMap(data)
  /\ LET r == Render(data, currentView, activeFilters)
     IN IF r.threw = "none"
        THEN Rendered(r) /\ pc' = "ready"
        ELSE /\ Rendered([r EXCEPT !.grid = Content("failed", << >>)])
             /\ pc' = "failed"
  /\ UNCHANGED <<activeFilters, currentView, btnActive, cachedWorld, modalVars,
                 hoverVars>>

InitFailedSilent ==
  /\ pc = "loading"
  /\ pc' = "failed"
  /\ UNCHANGED <<allCountries, activeFilters, derived, summary, isoToCountry,
                 viewVars, mapVars, modalVars, rafs, hoverVars>>

\* init(): the fetch rejected, the status was not OK, or the body did not parse
InitFailed ==
  /\ pc = "loading"
  /\ gridContent' = Content("failed", << >>)
  /\ pc' = "failed"
  /\ UNCHANGED <<allCountries, activeFilters, derived, summary, isoToCountry,
                 currentView, btnActive, hidden, tableContent, mapVars,
                 modalVars, rafs, hoverVars>>

FiltersChangedSortsInPlace(f) ==
  /\ pc = "ready"
  /\ activeFilters' = f
  /\ allCountries' = GetFilteredSorted(allCountries, f)
  /\ Rendered(Render(allCountries, currentView, f))
  /\ UNCHANGED <<pc, summary, isoToCountry, currentView, btnActive,
                 cachedWorld, modalVars, hoverVars>>

\* a handler that sets the filters and calls renderView()
FiltersChanged(f) ==
  /\ pc = "ready"
  /\ activeFilters' = f
  /\ Rendered(Render(allCountries, currentView, f))
  /\ UNCHANGED <<allCountries, pc, summary, isoToCountry, currentView,
                 btnActive, cachedWorld, modalVars, hoverVars>>

OnStatusChange(value) ==
  FiltersChanged([activeFilters EXCEPT !.status = value])

OnSortByChange(value) ==
  FiltersChanged([activeFilters EXCEPT !.sortBy = value])

OnSortOrderChange(value) ==
  FiltersChanged([activeFilters EXCEPT !.sortOrder = value])

OnSearchInputNoRender(value) ==
  /\ pc = "ready"
  /\ activeFilters' = [activeFilters EXCEPT !.search = value]
  /\ UNCHANGED <<allCountries, derived, pc, summary, isoToCountry, viewVars,
                 mapVars, modalVars, rafs, hoverVars>>

OnSearchInput(value) ==
  FiltersChanged([activeFilters EXCEPT !.search = value])

ViewClickedUnbound(view, button) ==
  /\ inFlight < MaxInFlight
  /\ currentView' = view
  /\ btnActive' = {button}
  /\ Rendered(Render(allCountries, view, activeFilters))
  /\ UNCHANGED <<allCountries, activeFilters, pc, summary, isoToCountry,
                 cachedWorld, modalVars, hoverVars>>

\* the click handlers of btnGrid, btnTable and btnMap, which bindControls
\* attaches once the first render of the loaded dataset has completed; a
\* button is activated by the pointer or, with the pointer resting where it
\* is, by the keyboard
ViewClicked(view, button) ==
  /\ pc = "ready"
  /\ inFlight < MaxInFlight
  /\ currentView' = view
  /\ btnActive' = {button}
  /\ Rendered(Render(allCountries, view, activeFilters))
  /\ UNCHANGED <<allCountries, activeFilters, pc, summary, isoToCountry,
                 cachedWorld, modalVars, hoverVars>>

OnGridClick == ViewClicked("grid", "btnGrid")
OnTableClick == ViewClicked("table", "btnTable")
OnMapClick == ViewClicked("map", "btnMap")

\* renderMap resumes: d3.json resolved with a document, which drawMap draws
\* or cannot draw
GeometryResolved(doc) ==
  /\ inFlight > 0
  /\ inFlight' = inFlight - 1
  /\ cachedWorld' = doc
  /\ IF doc = "malformed"
     THEN mapContent' = MapText("error") /\ mapRendered' = FALSE
     ELSE mapContent' = DrawMap /\ mapRendered' = mapRendered
  /\ UNCHANGED <<allCountries, activeFilters, derived, pc, summary,
                 isoToCountry, viewVars, modalVars, rafs, hoverVars>>

\* renderMap resumes: d3.json rejected
GeometryRejected ==
  /\ inFlight > 0
  /\ inFlight' = inFlight - 1
  /\ mapContent' = MapText("error")
  /\ mapRendered' = FALSE
  /\ UNCHANGED <<allCountries, activeFilters, derived, pc, summary,
                 isoToCountry, viewVars, cachedWorld, modalVars, rafs,
                 hoverVars>>

\* openModal(country)
OpenModal(country) ==
  /\ modalTitle' = country.name
  /\ sinceOpen' = 0
  /\ IF BtiThrows(country)
     THEN /\ bars' = [bars EXCEPT
                 !["barPolyarchy"] = SetModalBar(country.poly, NoText),
                 !["barLibdem"] = SetModalBar(country.libdem, NoText)]
          /\ UNCHANGED <<overlayHidden, rafs, trendChart>>
     ELSE /\ bars' = [b \in BarIds |->
                 CASE b = "barPolyarchy" -> SetModalBar(country.poly, NoText)
                   [] b = "barLibdem" -> SetModalBar(country.libdem, NoText)
                   [] b = "barBti" ->
                        SetModalBar(country.bti,
                          IF country.bti.k = "null" THEN Dash
                          ELSE Fixed(country.bti.v, 1))]
          /\ IF TrendThrows(country.trend)
             THEN UNCHANGED <<overlayHidden, rafs, trendChart>>
             ELSE /\ trendChart' = RenderTrendChart(country.trend)
                  /\ overlayHidden' = FALSE
                  /\ rafs' = rafs \cup {"modalOuter"}

\* allCountries.find(c => c.name === name)
FindByName(name) ==
  LET hits == {i \in 1..Len(allCountries) : allCountries[i].name = name}
  IN IF hits = {} THEN 0 ELSE CHOOSE i \in hits : \A j \in hits : i <= j

\* the click handler of a card or of a table row; the overlay, once shown,
\* covers the page and takes the pointer
ItemClicked(name) ==
  /\ overlayHidden
  /\ IF FindByName(name) = 0
     THEN UNCHANGED <<modalVars, rafs>>
     ELSE OpenModal(allCountries[FindByName(name)])
  /\ UNCHANGED <<allCountries, activeFilters, derived, pc, summary,
                 isoToCountry, viewVars, mapVars, hoverVars>>

OnCardClick(i) ==
  /\ gridContent.k = "cards"
  /\ ~hidden["countryGrid"]
  /\ ItemClicked(gridContent.items[i].name)

OnRowClick(i) ==
  /\ tableContent.k = "rows"
  /\ ~hidden["countryTableWrap"]
  /\ ItemClicked(tableContent.items[i].name)

\* Enter or Space on a focused card (tabindex="0", role="button"): the card
\* carries a click listener only, and the keydown listener of the document
\* acts on Escape alone, so no handler does anything.  A table row has no
\* tabindex and cannot take the focus.
OnCardKeydown(i) ==
  /\ pc = "ready"
  /\ gridContent.k = "cards"
  /\ ~hidden["countryGrid"]
  /\ i \in 1..Len(gridContent.items)
  /\ UNCHANGED vars

\* the click handler's  if (country)
ClickTarget(fid) == Matched(fid)

\* the click handler of a map path
OnFeatureClick(fid) ==
  /\ mapContent.k = "svg"
  /\ ~hidden["mapContainer"]
  /\ overlayHidden
  /\ hover = fid
  /\ IF ClickTarget(fid)
     THEN OpenModal(IF Matched(fid) THEN isoToCountry[fid] ELSE BrazilRec)
     ELSE UNCHANGED <<modalVars, rafs>>
  /\ UNCHANGED <<allCountries, activeFilters, derived, pc, summary,
                 isoToCountry, viewVars, mapVars, hoverVars>>

\* closeModal, from the close control, the overlay background or Escape
CloseModal ==
  /\ overlayHidden' = TRUE
  /\ UNCHANGED <<allCountries, activeFilters, derived, pc, summary,
                 isoToCountry, viewVars, mapVars, modalTitle, bars, sinceOpen,
                 trendChart, rafs, hoverVars>>

OnModalCloseClick == pc = "ready" /\ ~overlayHidden /\ CloseModal
OnOverlayClick == pc = "ready" /\ ~overlayHidden /\ CloseModal
OnEscapeKey == pc = "ready" /\ CloseModal

\* one rendering frame: the callbacks requested before it run; a callback
\* requested by one of them waits for the next frame
Frame ==
  /\ rafs # {}
  /\ rafs' = IF "modalOuter" \in rafs THEN {"modalInner"} ELSE {}
  /\ gridContent' = IF "gridBars" \in rafs /\ gridContent.k = "cards"
                    THEN [gridContent EXCEPT !.animated = TRUE]
                    ELSE gridContent
  /\ tableContent' = IF "tableBars" \in rafs /\ tableContent.k = "rows"
                     THEN [tableContent EXCEPT !.animated = TRUE]
                     ELSE tableContent
  /\ bars' = IF "modalInner" \in rafs
             THEN [b \in BarIds |-> AnimateModalBar(bars[b])]
             ELSE bars
  /\ sinceOpen' = IF sinceOpen < 2 THEN sinceOpen + 1 ELSE sinceOpen
  /\ UNCHANGED <<allCountries, activeFilters, derived, pc, summary,
                 isoToCountry, currentView, btnActive, hidden, mapVars,
                 overlayHidden, modalTitle, trendChart, hoverVars>>

HoverTargetAny(fid) == TRUE

\* the mouseover handler's  if (!country) return
HoverTarget(fid) == Matched(fid)

\* mouseover on a map path
OnMouseOver(fid) ==
  /\ mapContent.k = "svg"
  /\ ~hidden["mapContainer"]
  /\ overlayHidden
  /\ hover = NoFeature
  /\ hover' = fid
  /\ IF ~HoverTarget(fid)
     THEN UNCHANGED <<tooltip, highlighted>>
     ELSE /\ highlighted' = highlighted \cup {fid}
          /\ LET c == IF Matched(fid) THEN isoToCountry[fid] ELSE BrazilRec
             IN IF TooltipThrows(c)
                THEN tooltip' = [tooltip EXCEPT !.exists = TRUE]
                ELSE tooltip' = TooltipText(c)
  /\ UNCHANGED <<allCountries, activeFilters, derived, pc, summary,
                 isoToCountry, viewVars, mapVars, modalVars, rafs>>

\* mousemove on a map path: moveMapTooltip moves the tooltip, if there is
\* one, and changes nothing else; its coordinates are not part of the state
OnMouseMove ==
  /\ mapContent.k = "svg"
  /\ hover # NoFeature
  /\ ~hidden["mapContainer"]
  /\ UNCHANGED vars

\* mouseout on a map path: the stroke is reset and hideMapTooltip runs
OnMouseOut ==
  /\ mapContent.k = "svg"
  /\ hover # NoFeature
  /\ hover' = NoFeature
  /\ highlighted' = highlighted \ {hover}
  /\ tooltip' = IF tooltip.exists THEN [tooltip EXCEPT !.display = "none"]
                ELSE tooltip
  /\ UNCHANGED <<allCountries, activeFilters, derived, pc, summary,
                 isoToCountry, viewVars, mapVars, modalVars, rafs>>

Next ==
  \/ \E data \in Datasets : InitLoaded(data)
  \/ InitFailed
  \/ \E v \in AppStatusFilters : OnStatusChange(v)
  \/ \E v \in AppSortKeys : OnSortByChange(v)
  \/ \E v \in SortOrders : OnSortOrderChange(v)
  \/ \E v \in AppSearchTexts : OnSearchInput(v)
  \/ OnGridClick
  \/ OnTableClick
  \/ OnMapClick
  \/ \E doc \in GeometryDocuments : GeometryResolved(doc)
  \/ GeometryRejected
  \/ \E i \in 1..Len(gridContent.items) : OnCardClick(i)
  \/ \E i \in 1..Len(tableContent.items) : OnRowClick(i)
  \/ \E i \in 1..Len(gridContent.items) : OnCardKeydown(i)
  \/ \E fid \in Features : OnFeatureClick(fid)
  \/ OnModalCloseClick
  \/ OnOverlayClick
  \/ OnEscapeKey
  \/ Frame
  \/ \E fid \in Features : OnMouseOver(fid)
  \/ OnMouseMove
  \/ OnMouseOut

Spec == Init /\ [][Next]_vars

(***************************************************************************)
(* The derivation on its own: every list and every criteria.               *)
(***************************************************************************)
InitDerive ==
  /\ allCountries \in Lists
  /\ activeFilters \in Criteria
  /\ derived = << >>
  /\ pc = "start"
  /\ currentView = "grid"
  /\ btnActive = {"btnGrid"}
  /\ hidden = ShowOnly("countryGrid")
  /\ summary = PopulateSummary(<< >>)
  /\ gridContent = Content("markup", << >>)
  /\ tableContent = Content("markup", << >>)
  /\ mapContent = MapText("markup")
  /\ isoToCountry = << >>
  /\ mapRendered = FALSE
  /\ cachedWorld = "null"
  /\ inFlight = 0
  /\ overlayHidden = TRUE
  /\ modalTitle = S_empty
  /\ bars = [b \in BarIds |-> NoBar]
  /\ rafs = {}
  /\ sinceOpen = 2
  /\ trendChart = TrendMarkup
  /\ tooltip = NoTooltip
  /\ hover = NoFeature
  /\ highlighted = {}

Derive ==
  /\ pc = "start"
  /\ derived' = GetFilteredSorted(allCountries, activeFilters)
  /\ pc' = "derived"
  /\ UNCHANGED <<allCountries, activeFilters, summary, isoToCountry, viewVars,
                 mapVars, modalVars, rafs, hoverVars>>

NextDerive == Derive

SpecDerive == InitDerive /\ [][NextDerive]_vars

(***************************************************************************)
(* renderTrendChart on its own: every chronologically ordered series of at *)
(* most MaxPoints points, a null series and an absent one.                 *)
(***************************************************************************)
TrendValues == {Num(20), Num(80), Null, Undefined}
Years == 2001..(2000 + MaxPoints)

Ascending(Y) ==
  [i \in 1..Cardinality(Y) |->
     CHOOSE y \in Y : Cardinality({z \in Y : z < y}) = i - 1]

TrendSeries ==
  UNION { { [i \in 1..Cardinality(Y) |->
               TrendPoint(Ascending(Y)[i], f[Ascending(Y)[i]])] :
            f \in [Y -> TrendValues] } : Y \in SUBSET Years }

TrendInputs == {NoTrend, NullTrend} \cup {Trend(p) : p \in TrendSeries}

InitTrend ==
  /\ allCountries \in {<<[ChileRec EXCEPT !.trend = t]>> : t \in TrendInputs}
  /\ activeFilters = DefaultFilters
  /\ derived = << >>
  /\ pc = "start"
  /\ currentView = "grid"
  /\ btnActive = {"btnGrid"}
  /\ hidden = ShowOnly("countryGrid")
  /\ summary = PopulateSummary(<< >>)
  /\ gridContent = Content("markup", << >>)
  /\ tableContent = Content("markup", << >>)
  /\ mapContent = MapText("markup")
  /\ isoToCountry = << >>
  /\ mapRendered = FALSE
  /\ cachedWorld = "null"
  /\ inFlight = 0
  /\ overlayHidden = TRUE
  /\ modalTitle = S_empty
  /\ bars = [b \in BarIds |-> NoBar]
  /\ rafs = {}
  /\ sinceOpen = 2
  /\ trendChart = TrendMarkup
  /\ tooltip = NoTooltip
  /\ hover = NoFeature
  /\ highlighted = {}

\* renderTrendChart(country): it returns, pc "charted", or throws
RenderTrend ==
  /\ pc = "start"
  /\ IF TrendThrows(allCountries[1].trend)
     THEN pc' = "threw" /\ trendChart' = trendChart
     ELSE /\ pc' = "charted"
          /\ trendChart' = RenderTrendChart(allCountries[1].trend)
  /\ UNCHANGED <<allCountries, activeFilters, derived, summary, isoToCountry,
                 viewVars, mapVars, overlayHidden, modalTitle, bars,
                 sinceOpen, rafs, hoverVars>>

NextTrend == RenderTrend

SpecTrend == InitTrend /\ [][NextTrend]_vars

(***************************************************************************)
(* Properties of the derivation.                                           *)
(***************************************************************************)
Range(s) == {s[i] : i \in 1..Len(s)}
Occurrences(s, x) == Cardinality({i \in 1..Len(s) : s[i] = x})

RECURSIVE IsSubsequenceFrom(_, _, _, _)
IsSubsequenceFrom(sub, i, full, j) ==
  IF i > Len(sub) THEN TRUE
  ELSE IF j > Len(full) THEN FALSE
  ELSE IF sub[i] = full[j] THEN IsSubsequenceFrom(sub, i + 1, full, j + 1)
  ELSE IsSubsequenceFrom(sub, i, full, j + 1)

\* sub is obtained from full by deleting elements, the order kept
IsSubsequence(sub, full) == IsSubsequenceFrom(sub, 1, full, 1)

\* sub is a rearrangement of a subsequence of full: no record occurs in
\* sub more often than in full
IsRearrangedSubsequence(sub, full) ==
  \A x \in Range(sub) : Occurrences(sub, x) <= Occurrences(full, x)

\* two characters are the same letter, case ignored
SameLetter(x, y) ==
  \/ x = y
  \/ x \in 1..26 /\ y = x + 26
  \/ y \in 1..26 /\ x = y + 26

\* the status predicate of the specification: "all", or equality with
\* status_indicator with case ignored on both sides
StatusPredicate(c, status) ==
  \/ status = S_all
  \/ /\ c.status_indicator.k = "str"
     /\ Len(c.status_indicator.v) = Len(status)
     /\ \A i \in 1..Len(status) : SameLetter(c.status_indicator.v[i], status[i])

\* the search predicate of the specification: empty, or a substring of the
\* name with case ignored
SearchPredicate(c, search) ==
  \/ search = S_empty
  \/ \E i \in 0..(Len(c.name) - Len(search)) :
        \A j \in 1..Len(search) : SameLetter(c.name[i + j], search[j])

SatisfiesBoth(c, f) ==
  StatusPredicate(c, f.status) /\ SearchPredicate(c, f.search)

\* C1 as stated: the result of getFilteredSorted is a subsequence of the
\* dataset list (the order of the list kept) and every element of the
\* result satisfies the status predicate and the search predicate.
C1_SubsequenceOfList ==
  pc = "derived" =>
    /\ IsSubsequence(derived, allCountries)
    /\ \A i \in 1..Len(derived) : SatisfiesBoth(derived[i], activeFilters)

\* C1 amended: the result of getFilteredSorted is a rearrangement of a
\* subsequence of the dataset list (no record is fabricated and none occurs
\* more often than in the list; the order is the sort order, not the list's)
\* and every element satisfies the status and the search predicate.
C1_RearrangedSubsequence ==
  pc = "derived" =>
    /\ IsRearrangedSubsequence(derived, allCountries)
    /\ \A i \in 1..Len(derived) : SatisfiesBoth(derived[i], activeFilters)

\* a derivation that dropped a record and reordered the rest
C1_Witness ==
  /\ pc = "derived"
  /\ Len(derived) >= 2
  /\ Len(derived) < Len(allCountries)
  /\ ~IsSubsequence(derived, allCountries)
  /\ activeFilters.search # S_empty
  /\ activeFilters.status # S_all

\* C2: filtering keeps a record if and only if it satisfies the status
\* predicate (case ignored on both sides) and the search predicate; no
\* record satisfying both is dropped, whatever the casing.
C2_KeptIffBothPredicates ==
  pc = "derived" =>
    \A i \in 1..Len(allCountries) :
       SatisfiesBoth(allCountries[i], activeFilters)
         <=> allCountries[i] \in Range(derived)

IsMissing(c, key) == KeyField(c, key).k # "num"

\* C3 as stated: for a numeric sort key, ascending order places no record
\* whose key is missing after a record whose key is present, and descending
\* order places no record whose key is missing before one whose key is
\* present.
C3_MissingSortLowest ==
  pc = "derived" /\ activeFilters.sortBy \in NumericKeys =>
    \A i, j \in 1..Len(derived) :
       i < j =>
         LET key == activeFilters.sortBy
             lo == IF activeFilters.sortOrder = "asc" THEN i ELSE j
             hi == IF activeFilters.sortOrder = "asc" THEN j ELSE i
         IN ~(~IsMissing(derived[lo], key) /\ IsMissing(derived[hi], key))

\* C3 amended: a missing key ranks as -1 for polyarchy, libdem and bti and
\* as 0 for events: ascending order places no record whose key is missing
\* after a record whose present key is greater than that, and descending
\* order places none before such a record.  A present key equal to it (an
\* event count of 0) ties with a missing key.
C3_MissingSortAsSentinel ==
  pc = "derived" /\ activeFilters.sortBy \in NumericKeys =>
    \A i, j \in 1..Len(derived) :
       i < j =>
         LET key == activeFilters.sortBy
             rank == IF key = "events" THEN 0 ELSE -1
             lo == IF activeFilters.sortOrder = "asc" THEN i ELSE j
             hi == IF activeFilters.sortOrder = "asc" THEN j ELSE i
         IN ~(/\ ~IsMissing(derived[lo], key)
              /\ KeyField(derived[lo], key).v > rank
              /\ IsMissing(derived[hi], key))

\* sortKey = bti, sortOrder = desc: the record scored 8.5 precedes the
\* record whose score is null
C3_Witness ==
  /\ pc = "derived"
  /\ activeFilters.sortBy = "bti"
  /\ activeFilters.sortOrder = "desc"
  /\ Len(derived) = 2
  /\ derived[1].bti = Num(85)
  /\ derived[2].bti = Null
  /\ allCountries[1].bti = Null

(***************************************************************************)
(* Properties of the application.                                          *)
(***************************************************************************)
ContainerOf(view) ==
  CASE view = "grid"  -> "countryGrid"
    [] view = "table" -> "countryTableWrap"
    [] view = "map"   -> "mapContainer"

ExactlyOneVisible ==
  /\ currentView \in Views
  /\ \A c \in Containers : hidden[c] <=> c # ContainerOf(currentView)

\* C4: once the dataset has loaded, exactly one of grid, table and map is
\* active, its container is visible and the other two are hidden: at first
\* with grid active, and after every step; a geometry fetch that resolves or
\* fails changes neither the active view nor the visibility of a container.
C4_ExactlyOneViewVisible ==
  [][ /\ pc' = "ready" => ExactlyOneVisible'
      /\ pc = "loading" /\ pc' = "ready" => currentView' = "grid"
      /\ inFlight' < inFlight => UNCHANGED <<currentView, hidden>> ]_vars

\* a geometry fetch is pending while the table is the visible view
C4_Witness ==
  /\ pc = "ready"
  /\ currentView = "table"
  /\ inFlight = 1
  /\ ~hidden["countryTableWrap"]
  /\ hidden["mapContainer"]
  /\ hidden["countryGrid"]

DisplayedNames(content) ==
  [i \in 1..Len(content.items) |-> content.items[i].name]

ShowsList(content, kinds, list) ==
  /\ content.k \in kinds
  /\ DisplayedNames(content) = [i \in 1..Len(list) |-> list[i].name]

\* C5: with the controls bound, the list the active grid or table displays
\* is getFilteredSorted of the loaded dataset under the current criteria.
C5_DisplayedListIsCurrent ==
  pc = "ready" =>
    LET list == GetFilteredSorted(allCountries, activeFilters)
    IN /\ currentView = "grid" =>
            ShowsList(gridContent, {"cards", "message"}, list)
       /\ currentView = "table" =>
            ShowsList(tableContent, {"rows", "message"}, list)

\* the table shows the one match of a search typed while it was active; the
\* hidden grid still shows the two records it was rendered with
C5_Witness ==
  /\ pc = "ready"
  /\ currentView = "table"
  /\ activeFilters.search = S_BR
  /\ DisplayedNames(tableContent) = <<S_Brazil>>
  /\ Len(gridContent.items) = 2

\* C6: a geometry fetch starts only from a map activation, with no fetch
\* pending and no document cached; no two fetches are ever in flight; once
\* a document is cached no further fetch starts.
C6_FetchOnlyWhenUnloaded ==
  [][ /\ inFlight' > inFlight =>
           /\ inFlight = 0
           /\ cachedWorld = "null"
           /\ currentView' = "map"
      /\ inFlight' <= 1
      /\ cachedWorld # "null" => inFlight' <= inFlight /\ cachedWorld' = cachedWorld
    ]_vars

\* the drawn map is active again after a criteria change, nothing in flight
C6_Witness ==
  /\ currentView = "map"
  /\ cachedWorld = "topology"
  /\ mapContent.k = "svg"
  /\ mapRendered
  /\ inFlight = 0
  /\ activeFilters # DefaultFilters
  /\ gridContent.k = "message"

\* C7: whenever the map panel shows the inline error of a failed fetch or
\* draw, the render-once guard is cleared and the cache is unloaded, so
\* that the next map activation starts a new fetch.
C7_FailureReturnsToUnloaded ==
  mapContent.k = "error" => ~mapRendered /\ cachedWorld = "null"

\* C8: from the reset done by an opening of the detail view until two
\* frames have run after that opening, the three score bars stay at width 0.
C8_BarsWaitTwoFrames ==
  sinceOpen < 2 => \A b \in BarIds : bars[b].width = 0

\* C9: a record with a numeric field null or absent is rendered by every
\* consumer without raising: the first render of a loaded dataset completes
\* and binds the controls, hovering a matched feature shows the tooltip,
\* and activating an item or a matched feature shows the detail view.
C9_MissingFieldsNeverRaise ==
  [][ /\ pc = "loading" /\ allCountries' # << >> => pc' = "ready"
      /\ hover = NoFeature /\ hover' # NoFeature /\ Matched(hover') =>
           tooltip'.display = "block" /\ tooltip'.name = isoToCountry[hover'].name
      /\ modalTitle' # modalTitle \/ sinceOpen' < sinceOpen =>
           ~overlayHidden' ]_vars

Unmatched == Features \ DOMAIN isoToCountry

\* C10: a feature not correlated to a Country record is drawn with the
\* no-data fill at reduced opacity and the default cursor; a mouseover on
\* it leaves the tooltip as it is and a click on it leaves the detail view
\* as it is.
C10_UnmatchedFeatureInert ==
  [][ /\ mapContent.k = "svg" =>
           \A f \in Unmatched :
              /\ mapContent.paths[f].fill = "#d4d4d4"
              /\ mapContent.paths[f].opacity = 45
              /\ mapContent.paths[f].cursor = "default"
      /\ \A f \in Unmatched :
           /\ OnMouseOver(f) => tooltip' = tooltip /\ highlighted' = highlighted
           /\ OnFeatureClick(f) => UNCHANGED <<modalVars, rafs>> ]_vars

\* the pointer is over the feature of Brazil, which is in the dataset and
\* yet not correlated ("076" is no key of isoToCountry), after the tooltip
\* had been shown for another feature
C10_Witness ==
  /\ hover = <<0, 7, 6>>
  /\ hover \in Unmatched
  /\ BrazilRec \in Range(allCountries)
  /\ mapContent.k = "svg"
  /\ ~hidden["mapContainer"]
  /\ tooltip.exists
  /\ tooltip.display = "none"
  /\ overlayHidden


Highlighted(content) ==
  {f \in Features : content.paths[f].fill # "#d4d4d4"}

C12_LoadFailureIsFinal ==
  [][ /\ pc = "loading" /\ pc' = "failed" /\ allCountries' = allCountries =>
           /\ gridContent' = Content("failed", << >>)
           /\ allCountries' = << >>
      /\ pc # "loading" => pc' # "loading"
      /\ pc = "failed" =>
           UNCHANGED <<pc, allCountries, derived, summary, gridContent>> ]_vars

\* the load has failed: the message is in the grid container, the dataset
\* and the identifier table are empty
C12_Witness ==
  /\ pc = "failed"
  /\ allCountries = << >>
  /\ isoToCountry = << >>
  /\ gridContent = Content("failed", << >>)


Opens(name) == ~overlayHidden' /\ modalTitle' = name

\* C13: a pointer click on a rendered card or row opens the detail view of
\* the Country of that item's name, and so does the keyboard activation of
\* the focused card; the close control, a click on the overlay background
\* and the Escape key each hide the detail view.
C13_ActivationOpensDetail ==
  /\ pc = "ready" /\ overlayHidden /\ gridContent.k = "cards"
       /\ ~hidden["countryGrid"] =>
       \A i \in 1..Len(gridContent.items) :
          /\ ENABLED (OnCardClick(i) /\ Opens(gridContent.items[i].name))
          /\ ENABLED (OnCardKeydown(i) /\ Opens(gridContent.items[i].name))
  /\ pc = "ready" /\ overlayHidden /\ tableContent.k = "rows"
       /\ ~hidden["countryTableWrap"] =>
       \A i \in 1..Len(tableContent.items) :
          ENABLED (OnRowClick(i) /\ Opens(tableContent.items[i].name))
  /\ ~overlayHidden =>
       /\ ENABLED (OnModalCloseClick /\ overlayHidden')
       /\ ENABLED (OnOverlayClick /\ overlayHidden')
       /\ ENABLED (OnEscapeKey /\ overlayHidden')


\* C14: renderTrendChart of a series of fewer than 2 points, of a null
\* series or of an absent one returns and renders the placeholder, with no
\* dot and no line; of a series of n >= 2 points it returns and renders
\* exactly n dots, one at each point in order, and exactly one polyline,
\* which runs through the same n points.
C14_TrendChartMatchesSeries ==
  pc # "start" =>
    LET trend == allCountries[1].trend
        n == Len(trend.pts)
    IN /\ pc = "charted"
       /\ IF trend.k # "seq" \/ n < 2
          THEN /\ trendChart.k = "placeholder"
               /\ trendChart.dots = << >>
               /\ trendChart.polylines = << >>
          ELSE /\ trendChart.k = "chart"
               /\ Len(trendChart.dots) = n
               /\ Len(trendChart.polylines) = 1
               /\ trendChart.polylines[1].points =
                    [i \in 1..n |-> trendChart.dots[i].c]
               /\ \A i \in 1..n :
                    trendChart.dots[i].c.y = YScale(trend.pts[i].value)


\* C15: once init() has assigned the dataset, no step changes allCountries,
\* neither its order nor a field of a record, nor the records isoToCountry
\* refers to; the list getFilteredSorted returns is a new one.
C15_DatasetIsImmutable ==
  [][ pc # "loading" =>
        /\ allCountries' = allCountries
        /\ isoToCountry' = isoToCountry ]_vars

\* the dataset is as loaded after a sort that reversed the derived list, a
\* map draw and an opening of the detail view
C15_Witness ==
  /\ pc = "ready"
  /\ allCountries = <<BrazilRec, ChileRec>>
  /\ derived = <<ChileRec, BrazilRec>>
  /\ mapContent.k = "svg"
  /\ modalTitle = S_Chile
  /\ trendChart.k = "chart"


\* C16: the tooltip is displayed only while the map is the current, visible
\* view and the pointer is over a matched feature.
C16_TooltipOnlyOverMatched ==
  tooltip.display = "block" =>
    /\ currentView = "map"
    /\ ~hidden["mapContainer"]
    /\ hover # NoFeature
    /\ Matched(hover)

====
